---- MODULE Spec2Model ----
(***************************************************************************)
(* BoltzPy: the time-stepping core.                                        *)
(*   - Geometry (src/boltzpy/geometry.py): shape, rules, add_rule,         *)
(*     is_set_up, initial_state, transport/collision dispatch.             *)
(*   - compute engine (src/boltzpy/compute.py): operator_splitting,        *)
(*     transport_fdm_inner, euler_scheme, no_transport, no_collisions.     *)
(* Floating point values are modelled as exact fractions <<num, den>>.     *)
(* All inputs of the model are dyadic fractions of small magnitude, on     *)
(* which IEEE double arithmetic is exact, so the fractions are the floats. *)
(***************************************************************************)
EXTENDS Integers, Sequences, FiniteSets, TLC

VARIABLES
    shape,            \* Geometry.shape: sequence of per-axis counts, <<>> is None
    rules,            \* Geometry.rules: sequence of Rule records
    geom_op,          \* last Geometry operation and its outcome (observation)
    state,            \* data.state[p][v], p in 0..size-1, v in 1..NV
    result,           \* data.result[p][v]
    t,                \* data.t
    vG,               \* data.vG[:, 0]: x-component of every velocity
    velocity_offset,  \* data.velocity_offset[0]
    dt,               \* data.dt
    dp,               \* data.dp
    col,              \* data.col: sequence of collision quadruples
    col_mat,          \* data.col_mat[v][k]
    p_dim,            \* data.p_dim
    strict_index,     \* numpy build: out-of-bounds index with empty selection raises
    pc,               \* position inside operator_splitting
    ri,               \* index of the next rule inside Geometry.transport/collision
    log,              \* stages the running call has finished, in order
    pre,              \* state, result and t when the running call began
    calls,            \* operator_splitting calls: begun, completed normally
    grid,             \* a Grid object: dim, boundaries, d, n, shape
    grid_op           \* last Grid operation, its arguments and outcome (observation)

geomVars == <<shape, rules, geom_op>>
dataVars == <<state, result, t>>
inputVars == <<vG, velocity_offset, dt, dp, col, col_mat, p_dim, strict_index>>
ctlVars == <<pc, ri, log, pre, calls>>
gridVars == <<grid, grid_op>>
vars == <<shape, rules, geom_op, state, result, t, vG, velocity_offset, dt, dp,
          col, col_mat, p_dim, strict_index, pc, ri, log, pre, calls, grid,
          grid_op>>

----------------------------------------------------------------------------
(* Bounds of the model.                                                    *)
MaxSteps == 2      \* operator_splitting calls per behaviour
MaxRules == 3      \* rules per Geometry
MaxGridOps == 3    \* operations on a Grid per behaviour

----------------------------------------------------------------------------
(* Exact arithmetic of the float values.                                   *)
Abs(x) == IF x < 0 THEN -x ELSE x

RECURSIVE Gcd(_, _)
Gcd(a, b) == IF b = 0 THEN a ELSE Gcd(b, a % b)

Frac(n, d) ==
    LET g == Gcd(Abs(n), Abs(d))
        s == IF d < 0 THEN -1 ELSE 1
    IN  IF n = 0 THEN <<0, 1>> ELSE <<(s * n) \div g, (s * d) \div g>>

RInt(n) == <<n, 1>>
RAdd(a, b) ==
    LET g == Gcd(a[2], b[2])
    IN  Frac(a[1] * (b[2] \div g) + b[1] * (a[2] \div g), (a[2] \div g) * b[2])
RSub(a, b) == RAdd(a, <<-b[1], b[2]>>)
RMul(a, b) == Frac(a[1] * b[1], a[2] * b[2])
RDiv(a, b) == Frac(a[1] * b[2], a[2] * b[1])
RAbs(a) == <<Abs(a[1]), a[2]>>
RNonNeg(a) == a[1] >= 0
RLeq(a, b) == a[1] * b[2] <= b[1] * a[2]

RECURSIVE RSum(_)
RSum(s) == IF s = <<>> THEN RInt(0) ELSE RAdd(Head(s), RSum(Tail(s)))

Range(s) == {s[i] : i \in DOMAIN s}

RECURSIVE Prod(_)
Prod(s) == IF s = <<>> THEN 1 ELSE Head(s) * Prod(Tail(s))

----------------------------------------------------------------------------
(* Geometry.                                                               *)
SUPP_GRID_DIMENSIONS == {1, 2}

\* Geometry.ndim: None (0 here) when shape is None
Ndim(sh) == Len(sh)

\* Geometry.size: np.prod(shape); only used where shape is not None
Size(sh) == Prod(sh)

\* the list built by Geometry.affected_points and by check_parameters
RECURSIVE AllPoints(_)
AllPoints(rs) ==
    IF rs = <<>> THEN <<>>
    ELSE Head(rs).affected_points \o AllPoints(Tail(rs))

NoDuplicates(s) == Cardinality(Range(s)) = Len(s)

\* Geometry.affected_points raises when len(result) != len(set(result))
AffectedPointsRaises(rs) == ~NoDuplicates(AllPoints(rs))

\* Geometry.unaffected_points raises when shape is None (int(None)) or when
\* affected_points does
UnaffectedPointsRaises(sh, rs) == sh = <<>> \/ AffectedPointsRaises(rs)

UnaffectedPoints(sh, rs) == (0 .. Size(sh) - 1) \ Range(AllPoints(rs))

\* Rule.check_integrity: a constructed boundary rule has rates that sum to 1
RuleCheckIntegrity(rule) ==
    rule.kind = "Boundary" =>
        RSum(<<rule.reflection_rate_inverse, rule.reflection_rate_elastic,
               rule.reflection_rate_thermal, rule.absorption_rate>>) = RInt(1)

\* a bug of the complete check: it accepts more affected points than the
\* grid has
AllPointsAffectedAtLeast(sh, rs) == Len(AllPoints(rs)) >= Prod(sh)

\* "all points must be affected at least once":
\* len(affected_points) == np.prod(shape)
AllPointsAffected(sh, rs) == Len(AllPoints(rs)) = Prod(sh)

\* check_parameters: TRUE when every assertion passes.  ndim_given tells
\* whether ndim is not None; shape is None when sh = <<>>.
CheckParameters(ndim_given, sh, rs, complete_check) ==
    /\ complete_check => ndim_given /\ sh # <<>>
    /\ ndim_given => Ndim(sh) \in SUPP_GRID_DIMENSIONS
    /\ sh # <<>> => \A i \in DOMAIN sh : sh[i] >= 1
    /\ \A i \in DOMAIN rs : RuleCheckIntegrity(rs[i])
    /\ NoDuplicates(AllPoints(rs))
    /\ complete_check => AllPointsAffected(sh, rs)
    /\ Cardinality({Len(rs[i].initial_state) : i \in DOMAIN rs}) \in {0, 1}

\* check_integrity passes ndim = self.ndim, which is None iff shape is None
CheckIntegrity(sh, rs, complete_check) ==
    CheckParameters(sh # <<>>, sh, rs, complete_check)

\* is_set_up: "True", "False" or "raise"
IsSetUp(sh, rs) ==
    IF sh = <<>> THEN "False"
    ELSE IF UnaffectedPointsRaises(sh, rs) THEN "raise"
    ELSE IF UnaffectedPoints(sh, rs) # {} THEN "False"
    ELSE IF CheckIntegrity(sh, rs, TRUE) THEN "True"
    ELSE "raise"

\* add_rule: the overlap assertion, before anything is written
AddRuleAccepts(sh, rs, new_rule) ==
    /\ ~UnaffectedPointsRaises(sh, rs)
    /\ Range(new_rule.affected_points) \subseteq UnaffectedPoints(sh, rs)

----------------------------------------------------------------------------
(* Geometry.initial_state.                                                 *)
ZeroRow(n) == [v \in 1 .. n |-> RInt(0)]

\* Geometry.size_of_model: the common size of the rules' initial states
SizeOfModel(rs) == Len(rs[1].initial_state)

\* a variant in which every rule writes the first rule's initial_state
BroadcastOfFirstRule(st, rs) ==
    [p \in DOMAIN st |->
        IF \E i \in DOMAIN rs : p \in Range(rs[i].affected_points)
        THEN rs[1].initial_state ELSE st[p]]

\* the two nested loops: every rule writes its initial_state into its rows
RECURSIVE Broadcast(_, _)
Broadcast(st, rs) ==
    IF rs = <<>> THEN st
    ELSE Broadcast([p \in DOMAIN st |->
                       IF p \in Range(Head(rs).affected_points)
                       THEN Head(rs).initial_state ELSE st[p]],
                   Tail(rs))

\* only evaluated where IsSetUp(sh, rs) = "True"; otherwise the property
\* returns None
InitialState(sh, rs) ==
    Broadcast([p \in 0 .. Size(sh) - 1 |-> ZeroRow(SizeOfModel(rs))], rs)

\* Geometry.size_of_model raises unless all rules share one model size
SizeOfModelRaises(rs) ==
    Cardinality({Len(rs[i].initial_state) : i \in DOMAIN rs}) # 1

\* the property initial_state as a whole: it raises, returns None, or
\* returns the array
InitialStateResult(sh, rs) ==
    IF IsSetUp(sh, rs) = "raise" THEN [out |-> "raise", state |-> <<>>]
    ELSE IF IsSetUp(sh, rs) = "False" THEN [out |-> "None", state |-> <<>>]
    ELSE IF SizeOfModelRaises(rs) THEN [out |-> "raise", state |-> <<>>]
    ELSE [out |-> "array", state |-> InitialState(sh, rs)]

----------------------------------------------------------------------------
(* compute.py: transport.                                                  *)
NV == Len(vG)

\* pv[v, 0]: effective velocity along the transport axis
PV(v) == vG[v] + velocity_offset

\* a variant that forgets the velocity offset
OutflowPercentageNoOffset(v) == Frac(Abs(vG[v]) * dt, dp)

\* np.abs(vG[:, 0] + velocity_offset[0]) * dt / dp
OutflowPercentage(v) == Frac(Abs(PV(v)) * dt, dp)

\* a variant that forgets the absolute value
InflowPercentageSigned(v) == Frac(dt * PV(v), dp)

\* dt / dp * np.abs(pv[:, 0])
InflowPercentage(v) == Frac(dt * Abs(PV(v)), dp)

\* numpy integer indexing of the rows of an array with n rows
InBounds(n, i) == i \in -n .. n - 1
RowIndex(n, i) == IF i < 0 THEN i + n ELSE i
NRows(a) == Cardinality(DOMAIN a)

\* an index array that is out of bounds raises IndexError; when the selection
\* it is combined with is empty, only a strict numpy build raises
IndexRaises(a, idx, selection_empty) ==
    /\ \E j \in DOMAIN idx : ~InBounds(NRows(a), idx[j])
    /\ selection_empty => strict_index

RowAdd(r1, r2) == [v \in DOMAIN r1 |-> RAdd(r1[v], r2[v])]

\* transport_outflow_remains, one row of its return value
OutflowRemains(st, p) ==
    [v \in 1 .. NV |-> RMul(RSub(RInt(1), OutflowPercentage(v)), st[p][v])]

NegVels == {v \in 1 .. NV : PV(v) < 0}
PosVels == {v \in 1 .. NV : PV(v) > 0}

Shifted(pts, k) == [j \in DOMAIN pts |-> pts[j] + k]

\* transport_inflow_innerPoint raises IndexError on its neighbour lookups
InflowInnerRaises(st, pts) ==
    \/ IndexRaises(st, Shifted(pts, 1), NegVels = {})
    \/ IndexRaises(st, Shifted(pts, -1), PosVels = {})

\* transport_inflow_innerPoint, one row of its return value
InflowInner(st, p) ==
    [v \in 1 .. NV |->
        IF v \in NegVels
        THEN RMul(InflowPercentage(v), st[RowIndex(NRows(st), p + 1)][v])
        ELSE IF v \in PosVels
        THEN RMul(InflowPercentage(v), st[RowIndex(NRows(st), p - 1)][v])
        ELSE RInt(0)]

Outcome(e, st, res) == [exc |-> e, state |-> st, result |-> res]

\* a variant that updates data.state in place instead of data.result
TransportFdmInnerInPlace(st, res, pts) ==
    IF p_dim # 1 THEN Outcome("NotImplementedError", st, res)
    ELSE IF IndexRaises(st, pts, FALSE) THEN Outcome("IndexError", st, res)
    ELSE
        LET st1 == [p \in DOMAIN st |->
                       IF p \in Range(pts) THEN OutflowRemains(st, p) ELSE st[p]]
            st2 == [p \in DOMAIN st |->
                       IF p \in Range(pts)
                       THEN RowAdd(st1[p], InflowInner(st1, p)) ELSE st[p]]
        IN  IF InflowInnerRaises(st, pts)
            THEN Outcome("IndexError", st1, res)
            ELSE Outcome("none", st2, res)

\* a variant that writes the outflow rows before it looks at p_dim
TransportFdmInnerChecksLate(st, res, pts) ==
    LET res1 == [p \in DOMAIN res |->
                    IF p \in Range(pts) THEN OutflowRemains(st, p) ELSE res[p]]
        res2 == [p \in DOMAIN res |->
                    IF p \in Range(pts)
                    THEN RowAdd(res1[p], InflowInner(st, p)) ELSE res[p]]
    IN  IF IndexRaises(st, pts, FALSE) THEN Outcome("IndexError", st, res)
        ELSE IF p_dim # 1 THEN Outcome("NotImplementedError", st, res1)
        ELSE IF InflowInnerRaises(st, pts) THEN Outcome("IndexError", st, res1)
        ELSE Outcome("none", st, res2)

\* transport_fdm_inner: two writes to data.result, the second may raise
\* after the first is done
TransportFdmInner(st, res, pts) ==
    IF p_dim # 1 THEN Outcome("NotImplementedError", st, res)
    ELSE IF IndexRaises(st, pts, FALSE) THEN Outcome("IndexError", st, res)
    ELSE
        LET res1 == [p \in DOMAIN res |->
                        IF p \in Range(pts) THEN OutflowRemains(st, p) ELSE res[p]]
            res2 == [p \in DOMAIN res |->
                        IF p \in Range(pts)
                        THEN RowAdd(res1[p], InflowInner(st, p)) ELSE res[p]]
        IN  IF InflowInnerRaises(st, pts)
            THEN Outcome("IndexError", st, res1)
            ELSE Outcome("none", st, res2)

\* no_transport
NoTransport(st, res, pts) == Outcome("none", st, res)

\* a variant that takes the inflow from the downwind neighbour
FdmNewValDownwind(st, p, v) ==
    LET c == Frac(PV(v) * dt, dp)
        n == NRows(st)
    IN  IF PV(v) <= 0
        THEN RSub(RMul(RAdd(RInt(1), c), st[RowIndex(n, p)][v]),
                  RMul(c, st[RowIndex(n, p - 1)][v]))
        ELSE RAdd(RMul(RSub(RInt(1), c), st[RowIndex(n, p)][v]),
                  RMul(c, st[RowIndex(n, p + 1)][v]))

\* fdm_first_order: new_val of one cell; pv[0] <= 0 reads the row p + 1
FdmNewVal(st, p, v) ==
    LET c == Frac(PV(v) * dt, dp)
        n == NRows(st)
    IN  IF PV(v) <= 0
        THEN RSub(RMul(RAdd(RInt(1), c), st[RowIndex(n, p)][v]),
                  RMul(c, st[RowIndex(n, p + 1)][v]))
        ELSE RAdd(RMul(RSub(RInt(1), c), st[RowIndex(n, p)][v]),
                  RMul(c, st[RowIndex(n, p - 1)][v]))

\* fdm_first_order: the two nested loops over the cells <<p, v>>, in order;
\* a scalar index out of bounds raises and leaves the cells written so far
RECURSIVE FdmLoop(_, _, _)
FdmLoop(st, res, cells) ==
    IF cells = <<>> THEN Outcome("none", st, res)
    ELSE LET p == Head(cells)[1]
             v == Head(cells)[2]
             n == NRows(st)
             nb == IF PV(v) <= 0 THEN p + 1 ELSE p - 1
         IN  IF ~InBounds(n, p) \/ ~InBounds(n, nb)
             THEN Outcome("IndexError", st, res)
             ELSE FdmLoop(st,
                          [res EXCEPT ![RowIndex(n, p)][v] = FdmNewVal(st, p, v)],
                          Tail(cells))

RECURSIVE Cells(_, _)
Cells(pts, v_size) ==
    IF pts = <<>> THEN <<>>
    ELSE [v \in 1 .. v_size |-> <<Head(pts), v>>] \o Cells(Tail(pts), v_size)

\* fdm_first_order, with v_size = data.v_range[-1, 1] the number of velocities
FdmFirstOrder(st, res, pts) ==
    IF p_dim # 1 THEN Outcome("NotImplementedError", st, res)
    ELSE FdmLoop(st, res, Cells(pts, NV))

----------------------------------------------------------------------------
(* compute.py: collisions.                                                 *)
\* col_factor[k] = u_c0 * u_c2 - u_c1 * u_c3, read from the row u
ColFactor(u, k) ==
    RSub(RMul(u[col[k][1]], u[col[k][3]]), RMul(u[col[k][2]], u[col[k][4]]))

\* col_mat.dot(col_factor)[v]
ColIncrement(u, v) ==
    RSum([k \in DOMAIN col |-> RMul(col_mat[v][k], ColFactor(u, k))])

\* a variant that assigns the increment instead of adding it
EulerRowAssigns(u) == [v \in DOMAIN u |-> ColIncrement(u, v)]

\* a variant that applies the increment one velocity at a time and computes
\* the factors anew from the row as it stands
EulerRowInSequence(u) ==
    LET RECURSIVE From(_, _)
        From(w, v) ==
            IF v > Len(w) THEN w
            ELSE From([w EXCEPT ![v] = RAdd(w[v], ColIncrement(w, v))], v + 1)
    IN  From(u, 1)

\* data.state[p] += col_mat.dot(col_factor)
EulerRow(u) == [v \in DOMAIN u |-> RAdd(u[v], ColIncrement(u, v))]

\* a variant that runs the collision step on every row of the array
EulerSchemeOnAllRows(st, pts) == [p \in DOMAIN st |-> EulerRow(st[p])]

\* euler_scheme: the loop over affected_points, in order
RECURSIVE EulerScheme(_, _)
EulerScheme(st, pts) ==
    IF pts = <<>> THEN st
    ELSE EulerScheme([st EXCEPT ![Head(pts)] = EulerRow(st[Head(pts)])], Tail(pts))

\* a variant in which the collision of a point without collisions is computed
NoCollisionsComputes(st, pts) == EulerScheme(st, pts)

\* no_collisions
NoCollisions(st, pts) == st

----------------------------------------------------------------------------
(* Rule variants.  The Rule classes bind a rule to its operators.          *)
Rule(kind, pts, init, r_inv, r_el, r_th, r_abs, normal) ==
    [kind |-> kind, affected_points |-> pts, initial_state |-> init,
     reflection_rate_inverse |-> r_inv, reflection_rate_elastic |-> r_el,
     reflection_rate_thermal |-> r_th, absorption_rate |-> r_abs,
     surface_normal |-> normal]

InnerPointRule(pts, init) ==
    Rule("Inner", pts, init, RInt(0), RInt(0), RInt(0), RInt(0), 0)

ConstantPointRule(pts, init) ==
    Rule("Constant", pts, init, RInt(0), RInt(0), RInt(0), RInt(0), 0)

BoundaryPointRule(pts, init, r_inv, r_el, r_th, r_abs, normal) ==
    Rule("Boundary", pts, init, r_inv, r_el, r_th, r_abs, normal)

\* velocities that move towards the wall, whose inflow comes from the interior
IncomingVelocities(rule) == {v \in 1 .. NV : vG[v] * rule.surface_normal > 0}

\* velocities that leave the wall into the interior
EmittedVelocities(rule) == {v \in 1 .. NV : vG[v] * rule.surface_normal < 0}

\* the velocity index with the reversed velocity, on the grid layout
\* (1,0), (0,1), (-1,0), (0,-1), ...
Reversed(v) == IF v + 2 <= NV THEN v + 2 ELSE v - 2

\* transport_inflow_boundaryPoint raises IndexError on its neighbour lookups
InflowBoundaryRaises(st, pts, incoming) ==
    \/ IndexRaises(st, Shifted(pts, 1), incoming \cap NegVels = {})
    \/ IndexRaises(st, Shifted(pts, -1), incoming \cap PosVels = {})

\* transport_inflow_boundaryPoint, one row of its return value
InflowBoundary(st, p, incoming) ==
    [v \in 1 .. NV |->
        IF v \in incoming \cap NegVels
        THEN RMul(InflowPercentage(v), st[RowIndex(NRows(st), p + 1)][v])
        ELSE IF v \in incoming \cap PosVels
        THEN RMul(InflowPercentage(v), st[RowIndex(NRows(st), p - 1)][v])
        ELSE RInt(0)]

\* the flux that reaches the wall at point p with velocity v
WallFlux(st, p, rule, v) ==
    IF v \in IncomingVelocities(rule)
    THEN RMul(OutflowPercentage(v), st[p][v]) ELSE RInt(0)

SetSum(f, S) ==
    LET RECURSIVE Go(_)
        Go(T) == IF T = {} THEN RInt(0)
                 ELSE LET x == CHOOSE y \in T : TRUE
                      IN  RAdd(f[x], Go(T \ {x}))
    IN  Go(S)

\* the reflected part of the wall flux, one row: reversed (inverse and
\* elastic reflection coincide along one axis) and thermally re-emitted with
\* the profile of the rule's initial state; the rest is absorbed
Reflection(st, p, rule) ==
    LET flux == [v \in 1 .. NV |-> WallFlux(st, p, rule, v)]
        total == SetSum(flux, 1 .. NV)
        profile == SetSum(rule.initial_state, EmittedVelocities(rule))
        mirrored == RAdd(rule.reflection_rate_inverse, rule.reflection_rate_elastic)
    IN  [v \in 1 .. NV |->
            RAdd(RMul(mirrored, flux[Reversed(v)]),
                 IF v \in EmittedVelocities(rule) /\ profile # RInt(0)
                 THEN RMul(RMul(rule.reflection_rate_thermal, total),
                           RDiv(rule.initial_state[v], profile))
                 ELSE RInt(0))]

\* BoundaryPointRule.transport
TransportBoundary(st, res, rule) ==
    LET pts == rule.affected_points
        incoming == IncomingVelocities(rule)
        res1 == [p \in DOMAIN res |->
                    IF p \in Range(pts) THEN OutflowRemains(st, p) ELSE res[p]]
        res2 == [p \in DOMAIN res |->
                    IF p \in Range(pts)
                    THEN RowAdd(RowAdd(res1[p], InflowBoundary(st, p, incoming)),
                                Reflection(st, p, rule))
                    ELSE res[p]]
    IN  IF p_dim # 1 THEN Outcome("NotImplementedError", st, res)
        ELSE IF IndexRaises(st, pts, FALSE) THEN Outcome("IndexError", st, res)
        ELSE IF InflowBoundaryRaises(st, pts, incoming)
        THEN Outcome("IndexError", st, res1)
        ELSE Outcome("none", st, res2)

\* rule.transport(data)
RuleTransport(rule, st, res) ==
    CASE rule.kind = "Inner" -> TransportFdmInner(st, res, rule.affected_points)
      [] rule.kind = "Boundary" -> TransportBoundary(st, res, rule)
      [] rule.kind = "Constant" -> NoTransport(st, res, rule.affected_points)

\* rule.collision(data)
RuleCollision(rule, st) ==
    CASE rule.kind = "Inner" -> EulerScheme(st, rule.affected_points)
      [] rule.kind = "Boundary" -> NoCollisions(st, rule.affected_points)
      [] rule.kind = "Constant" -> NoCollisions(st, rule.affected_points)

----------------------------------------------------------------------------
(* Geometry.transport and Geometry.collision as functions of the data.     *)
RECURSIVE TransportRules(_, _, _)
TransportRules(st, res, rs) ==
    IF rs = <<>> THEN Outcome("none", st, res)
    ELSE LET o == RuleTransport(Head(rs), st, res)
         IN  IF o.exc # "none" THEN o
             ELSE TransportRules(o.state, o.result, Tail(rs))

\* data.state[...] = data.result[...]
CopyResult(st, res) == res

GeometryTransport(st, res, rs) ==
    LET o == TransportRules(st, res, rs)
    IN  IF o.exc # "none" THEN o
        ELSE Outcome("none", CopyResult(o.state, o.result), o.result)

RECURSIVE GeometryCollision(_, _)
GeometryCollision(st, rs) ==
    IF rs = <<>> THEN st
    ELSE GeometryCollision(RuleCollision(Head(rs), st), Tail(rs))

----------------------------------------------------------------------------
(* Grid (src/Grid.py).  Python's "is" compares objects, not values: where  *)
(* the interpreter is free to share or not to share the objects compared,  *)
(* the outcome is a choice.                                                *)
GRID_SHAPES == {"rectangular"}

ZeroRowOfBoundaries == <<RInt(0), RInt(0)>>

\* Grid.__init__.  d_is_literal: self.d is the object of the literal 0.0 of
\* __compute_n (an interpreter may share equal constants of one file);
\* shape_is_literal: self.shape is the object of the literal 'rectangular'.
NewGrid(shared_constants) ==
    [dim |-> 0,
     boundaries |-> [i \in 1 .. 3 |-> ZeroRowOfBoundaries],
     d |-> RInt(0),
     n |-> 0,
     shape |-> "NOT INITIALIZED",
     d_is_literal |-> shared_constants,
     shape_is_literal |-> FALSE]

RPos(a) == a[1] > 0

\* np.ceil of a fraction with a positive denominator
RCeil(x) ==
    IF x[1] % x[2] = 0 THEN x[1] \div x[2] ELSE (x[1] \div x[2]) + 1

\* _l = self.boundaries[:, 1] - self.boundaries[:, 0]
AxisLength(b, i) == RSub(b[i][2], b[i][1])

\* a variant that rounds the number of steps of an axis down
AxisCountFloor(g, i) ==
    LET q == RDiv(AxisLength(g.boundaries, i), g.d)
    IN  (q[1] \div q[2]) + 1

\* np.ceil(_l / self.d) + 1, one axis
AxisCount(g, i) == RCeil(RDiv(AxisLength(g.boundaries, i), g.d)) + 1

\* what a cast of inf or nan to int, and the product of such values, can
\* give: the result is not defined; a few representatives
UndefinedCounts == {-2, 0, 2}

\* self.shape is 'rectangular'
ShapeIsRectangular(g) == g.shape = "rectangular" /\ g.shape_is_literal

\* Grid.__compute_n: the outcomes it can have, [exc, n]
ComputeN(g) ==
    IF g.d = RInt(0) /\ g.d_is_literal
    THEN {[exc |-> "AssertionError", n |-> 0]}
    ELSE IF \A i \in 1 .. 3 : g.boundaries[i] = ZeroRowOfBoundaries
    THEN {[exc |-> "AssertionError", n |-> 0]}
    ELSE IF ~ShapeIsRectangular(g)
    THEN {[exc |-> "AssertionError", n |-> 0]}
    ELSE IF g.d = RInt(0)
    THEN {[exc |-> "none", n |-> x] : x \in UndefinedCounts}
    ELSE {[exc |-> "none",
           n |-> AxisCount(g, 1) * AxisCount(g, 2) * AxisCount(g, 3)]}

\* a is b, for two int objects: equal small ints (-5 .. 256) are one object
\* in CPython and larger ones made separately are not; other interpreters
\* compare ints by value
IntIs(a, b) ==
    IF a # b THEN {FALSE}
    ELSE IF a \in -5 .. 256 THEN {TRUE}
    ELSE BOOLEAN

\* a variant of check_integrity that accepts a grid of one point
GridCheckIntegrityFromOne(g) ==
    IF ~(g.dim \in {1, 2, 3}) \/ ~RPos(g.d) \/ ~(g.n >= 1)
       \/ ~(g.shape \in GRID_SHAPES)
    THEN {"AssertionError"}
    ELSE UNION {IF o.exc # "none" THEN {o.exc}
                ELSE {IF same THEN "ok" ELSE "AssertionError" : same \in IntIs(g.n, o.n)}
                : o \in ComputeN(g)}

\* Grid.check_integrity: the outcomes it can have (the type assertions hold
\* of every grid of the model)
GridCheckIntegrity(g) ==
    IF ~(g.dim \in {1, 2, 3}) \/ ~RPos(g.d) \/ ~(g.n >= 2)
       \/ ~(g.shape \in GRID_SHAPES)
    THEN {"AssertionError"}
    ELSE UNION {IF o.exc # "none" THEN {o.exc}
                ELSE {IF same THEN "ok" ELSE "AssertionError" : same \in IntIs(g.n, o.n)}
                : o \in ComputeN(g)}

\* self.boundaries[0:dim, :] = np.array(boundaries): the rows given must be
\* as many as the rows of the slice, or one row, which is broadcast
SliceRows(dim) == IF dim > 3 THEN 3 ELSE dim

AssignBoundariesRaises(dim, bs) == ~(Len(bs) = SliceRows(dim) \/ Len(bs) = 1)

AssignBoundaries(b, dim, bs) ==
    [i \in 1 .. 3 |->
        IF i <= SliceRows(dim)
        THEN (IF Len(bs) = 1 THEN bs[1] ELSE bs[i])
        ELSE b[i]]

\* Grid.__initialize_without_n: the grid afterwards and the outcome; the
\* fields written before an exception keep their new values
InitializeWithoutN(g, a) ==
    LET g1 == [g EXCEPT !.dim = a.dim]
        g2 == [g1 EXCEPT !.boundaries = AssignBoundaries(g.boundaries, a.dim, a.boundaries),
                         !.d = a.d,
                         !.d_is_literal = FALSE,
                         !.shape = a.shape,
                         !.shape_is_literal = a.shape_is_literal]
    IN  IF AssignBoundariesRaises(a.dim, a.boundaries)
        THEN {[grid |-> g1, outcome |-> "ValueError"]}
        ELSE {IF o.exc = "none"
              THEN [grid |-> [g2 EXCEPT !.n = o.n], outcome |-> "ok"]
              ELSE [grid |-> g2, outcome |-> o.exc] : o \in ComputeN(g2)}

\* a variant of initialize that does not look at n
InitializeIgnoresN(g, a) ==
    IF "boundaries" \in a.given /\ "d" \in a.given
    THEN InitializeWithoutN(g, a)
    ELSE {[grid |-> g, outcome |-> "AssertionError"]}

\* Grid.initialize: a.given holds the names of the parameters among
\* boundaries, d, n that are not None
Initialize(g, a) ==
    IF "boundaries" \in a.given /\ "d" \in a.given /\ ~("n" \in a.given)
    THEN InitializeWithoutN(g, a)
    ELSE {[grid |-> g, outcome |-> "AssertionError"]}

----------------------------------------------------------------------------
(* Inputs.                                                                 *)
Row(a, b, c, d) == <<RInt(a), RInt(b), RInt(c), RInt(d)>>

SeqsUpTo(S, n) == UNION {[1 .. k -> S] : k \in 0 .. n}

\* velocity model: four velocities, one collision quadruple whose column of
\* the collision matrix is weight * (-1, 1, -1, 1)
VelocityGridInputs == {<<1, 0, -1, 0>>, <<1, 1, 1, 1>>}
OffsetInputs == {0, -1}
StepInputs == {<<1, 2>>, <<1, 1>>}          \* <<dt, dp>>
ColInput == << <<1, 2, 3, 4>> >>
ColMatInput(w) == << <<RSub(RInt(0), w)>>, <<w>>, <<RSub(RInt(0), w)>>, <<w>> >>
ColWeightInputs == {Frac(1, 4), RInt(1)}
BuildInputs == {<<1, FALSE>>, <<1, TRUE>>, <<2, FALSE>>}   \* <<p_dim, strict_index>>

\* rules of the simulated geometries, on a grid of three points
SimShape == <<3>>
SimPointInputs == {<<0>>, <<1>>, <<2>>, <<0, 1>>, <<1, 2>>, <<0, 2>>, <<0, 1, 2>>}
SimRuleInputs ==
    {InnerPointRule(pts, Row(2, 0, 2, 0)) : pts \in SimPointInputs}
    \cup {ConstantPointRule(pts, Row(0, 1, 0, 3)) : pts \in SimPointInputs}
    \cup {BoundaryPointRule(pts, Row(1, 1, 1, 0), Frac(1, 2), RInt(0), Frac(1, 4),
                            Frac(1, 4), IF 0 \in Range(pts) THEN -1 ELSE 1)
            : pts \in SimPointInputs}

SimGeometries ==
    {rs \in SeqsUpTo(SimRuleInputs, MaxRules) : IsSetUp(SimShape, rs) = "True"}

\* rules and shapes handed to the Geometry constructor and to add_rule
GeomShapeInputs == {<<>>, <<3>>, <<2, 2>>}
GeomPointInputs ==
    {<<0>>, <<1>>, <<2>>, <<3>>, <<4>>, <<0, 1>>, <<1, 2>>, <<2, 3>>, <<0, 1, 2>>,
     <<1, 1>>}
GeomRuleInputs ==
    {InnerPointRule(pts, Row(2, 0, 2, 0)) : pts \in GeomPointInputs}
    \cup {ConstantPointRule(pts, Row(0, 1, 0, 3)) : pts \in {<<0>>, <<3>>}}
    \cup {InnerPointRule(pts, <<RInt(1), RInt(1)>>) : pts \in {<<2>>, <<0, 1>>}}

\* the arguments of Grid.initialize
GridArgs(given, dim, bs, d, n, shp, lit) ==
    [given |-> given, dim |-> dim, boundaries |-> bs, d |-> d, n |-> n,
     shape |-> shp, shape_is_literal |-> lit]

GridDimInputs == {1, 2}
GridBoundaryInputs ==
    {<< <<RInt(0), RInt(1)>> >>,
     << <<RInt(0), RInt(1)>>, <<Frac(1, 4), RInt(1)>> >>,
     << <<RInt(0), RInt(256)>> >>}
GridStepInputs == {Frac(1, 2), RInt(1)}
GridRowInputs == {<<RInt(0), Frac(3, 4)>>, <<RInt(0), RInt(2)>>}
GridWrittenStepInputs == GridStepInputs \cup {Frac(-1, 2)}

\* the call of the 1D example: boundaries [0, 1], step 0.5
ExampleArgs(given) ==
    GridArgs(given, 1, << <<RInt(0), RInt(1)>> >>, Frac(1, 2), 3,
             "rectangular", TRUE)

\* calls that differ from the example in one argument: all-zero boundaries,
\* boundaries of no extent, step 0, a negative step, dim 0, dim 4, an equal
\* string that is not the literal's object, another shape
GridEdgeArgInputs ==
    {[ExampleArgs({"boundaries", "d"}) EXCEPT !.boundaries = << <<RInt(0), RInt(0)>> >>],
     [ExampleArgs({"boundaries", "d"}) EXCEPT !.boundaries = << <<RInt(1), RInt(1)>> >>],
     [ExampleArgs({"boundaries", "d"}) EXCEPT !.d = RInt(0)],
     [ExampleArgs({"boundaries", "d"}) EXCEPT !.d = Frac(-1, 2)],
     [ExampleArgs({"boundaries", "d"}) EXCEPT !.dim = 0],
     [ExampleArgs({"boundaries", "d"}) EXCEPT !.dim = 4],
     [ExampleArgs({"boundaries", "d"}) EXCEPT !.shape_is_literal = FALSE],
     [ExampleArgs({"boundaries", "d"}) EXCEPT !.shape = "circular",
                                             !.shape_is_literal = FALSE]}

GridArgInputs ==
    {GridArgs({"boundaries", "d"}, dim, bs, d, 0, "rectangular", TRUE) :
        dim \in GridDimInputs, bs \in GridBoundaryInputs, d \in GridStepInputs}
    \cup GridEdgeArgInputs
    \cup {ExampleArgs(given) : given \in SUBSET {"boundaries", "d", "n"}}

\* no Grid operation yet
NoGridOp == [op |-> "init", outcome |-> "ok", args |-> ExampleArgs({}),
             fresh |-> TRUE, current |-> FALSE, count |-> 0]

----------------------------------------------------------------------------
(* Geometry: construction and add_rule.                                    *)
NoOp == [op |-> "init", outcome |-> "ok", prev_rules |-> <<>>, prev_shape |-> <<>>,
         new_rule |-> InnerPointRule(<<>>, <<>>)]

\* Geometry.__init__ accepts (shape, rules): check_parameters without ndim
ConstructorAccepts(sh, rs) == CheckParameters(FALSE, sh, rs, FALSE)

\* a variant that appends the rule before it checks for overlap
AddRuleResultAppendsFirst(sh, rs, new_rule) ==
    [rules |-> Append(rs, new_rule),
     outcome |-> IF AddRuleAccepts(sh, rs, new_rule)
                    /\ CheckIntegrity(sh, Append(rs, new_rule), FALSE)
                 THEN "ok" ELSE "raise"]

\* add_rule: the rules afterwards and whether the call raised
AddRuleResult(sh, rs, new_rule) ==
    IF ~AddRuleAccepts(sh, rs, new_rule)
    THEN [rules |-> rs, outcome |-> "raise"]
    ELSE [rules |-> Append(rs, new_rule),
          outcome |-> IF CheckIntegrity(sh, Append(rs, new_rule), FALSE)
                      THEN "ok" ELSE "raise"]

AddRule(new_rule) ==
    /\ pc = "geometry"
    /\ Len(rules) < MaxRules
    /\ LET r == AddRuleResult(shape, rules, new_rule)
       IN  /\ rules' = r.rules
           /\ geom_op' = [op |-> "add_rule", outcome |-> r.outcome,
                          prev_rules |-> rules, prev_shape |-> shape,
                          new_rule |-> new_rule]
    /\ UNCHANGED <<shape, state, result, t, vG, velocity_offset, dt, dp, col,
                   col_mat, p_dim, strict_index, pc, ri, log, pre, calls,
                   grid, grid_op>>

NoCalls == [begun |-> 0, completed |-> 0, last |-> "none"]

InitGeometry ==
    /\ shape \in GeomShapeInputs
    /\ rules \in SeqsUpTo(GeomRuleInputs, 2)
    /\ ConstructorAccepts(shape, rules)
    /\ geom_op = NoOp
    /\ state = <<>> /\ result = <<>> /\ t = 0
    /\ vG = <<1, 0, -1, 0>> /\ velocity_offset = 0 /\ dt = 1 /\ dp = 2
    /\ col = ColInput /\ col_mat = ColMatInput(Frac(1, 4))
    /\ p_dim = 1 /\ strict_index = FALSE
    /\ pc = "geometry" /\ ri = 1 /\ log = <<>>
    /\ pre = [state |-> <<>>, result |-> <<>>, t |-> 0]
    /\ calls = NoCalls
    /\ grid = NewGrid(FALSE) /\ grid_op = NoGridOp

NextGeometry == \E new_rule \in GeomRuleInputs : AddRule(new_rule)

SpecGeometry == InitGeometry /\ [][NextGeometry]_vars

----------------------------------------------------------------------------
(* operator_splitting.                                                     *)
\* a variant that runs the collision stage before the transport stage
StageOrderCollisionFirst == <<"collision", "transport", "check", "inc">>

\* a variant that advances the time before it checks the state
StageOrderIncBeforeCheck == <<"transport", "collision", "inc", "check">>

\* the statements of operator_splitting, in program order
StageOrder == <<"transport", "collision", "check", "inc">>

Stage == IF pc \in DOMAIN StageOrder THEN StageOrder[pc] ELSE "none"

\* np.all(data.state >= 0)
AllNonNegative(st) == \A p \in DOMAIN st : \A v \in DOMAIN st[p] : RNonNeg(st[p][v])

\* a variant that sets the time instead of advancing it
IncrementTAssigns(time) == 1

\* data.t += 1
IncrementT(time) == time + 1

\* the call returns or raises: the position leaves operator_splitting
Return(how) ==
    /\ pc' = 0
    /\ ri' = 1
    /\ calls' = [calls EXCEPT !.last = how,
                              !.completed = IF how = "completed" THEN @ + 1 ELSE @]

\* the statement at pc is done, the next one is reached; after the last
\* statement the call returns
Advance(stage) ==
    /\ log' = Append(log, stage)
    /\ IF pc < Len(StageOrder)
       THEN pc' = pc + 1 /\ ri' = 1 /\ calls' = calls
       ELSE Return("completed")

\* operator_splitting(data, geometry.transport, geometry.collision) is called
\* by the time loop; an exception of an earlier call has ended the loop
Call ==
    /\ pc = 0
    /\ calls.begun < MaxSteps
    /\ calls.last \in {"none", "completed"}
    /\ pc' = 1 /\ ri' = 1 /\ log' = <<>>
    /\ pre' = [state |-> state, result |-> result, t |-> t]
    /\ calls' = [calls EXCEPT !.begun = @ + 1, !.last = "running"]
    /\ UNCHANGED <<gridVars, geomVars, dataVars, inputVars>>

\* Geometry.transport: rule.transport(data) of the next rule
TransportRule ==
    /\ Stage = "transport"
    /\ ri <= Len(rules)
    /\ LET o == RuleTransport(rules[ri], state, result)
       IN  /\ state' = o.state
           /\ result' = o.result
           /\ IF o.exc = "none"
              THEN ri' = ri + 1 /\ UNCHANGED <<pc, calls>>
              ELSE Return(o.exc)
    /\ UNCHANGED <<gridVars, geomVars, inputVars, t, log, pre>>

\* Geometry.transport: data.state[...] = data.result[...], and return
TransportCopy ==
    /\ Stage = "transport"
    /\ ri = Len(rules) + 1
    /\ state' = CopyResult(state, result)
    /\ Advance("transport")
    /\ UNCHANGED <<gridVars, geomVars, inputVars, result, t, pre>>

\* Geometry.collision: rule.collision(data) of the next rule; it returns
\* after the last rule
CollisionRule ==
    /\ Stage = "collision"
    /\ ri <= Len(rules)
    /\ state' = RuleCollision(rules[ri], state)
    /\ IF ri < Len(rules)
       THEN ri' = ri + 1 /\ UNCHANGED <<pc, log, calls>>
       ELSE Advance("collision")
    /\ UNCHANGED <<gridVars, geomVars, inputVars, result, t, pre>>

\* assert np.all(data.state >= 0)
Check ==
    /\ Stage = "check"
    /\ IF AllNonNegative(state)
       THEN Advance("check")
       ELSE Return("AssertionError") /\ log' = log
    /\ UNCHANGED <<gridVars, geomVars, inputVars, dataVars, pre>>

\* data.t += 1
Inc ==
    /\ Stage = "inc"
    /\ t' = IncrementT(t)
    /\ Advance("inc")
    /\ UNCHANGED <<gridVars, geomVars, inputVars, state, result, pre>>

\* a Simulation: a set-up Geometry, and the data built from it
\* (state = geometry.initial_state, result a copy of it, t = 0)
Init ==
    /\ shape = SimShape
    /\ rules \in SimGeometries
    /\ geom_op = NoOp
    /\ state = InitialState(shape, rules)
    /\ result = state
    /\ t = 0
    /\ vG \in VelocityGridInputs
    /\ velocity_offset \in OffsetInputs
    /\ \E s \in StepInputs : dt = s[1] /\ dp = s[2]
    /\ col = ColInput
    /\ \E w \in ColWeightInputs : col_mat = ColMatInput(w)
    /\ \E b \in BuildInputs : p_dim = b[1] /\ strict_index = b[2]
    /\ pc = 0 /\ ri = 1 /\ log = <<>>
    /\ pre = [state |-> state, result |-> result, t |-> t]
    /\ calls = NoCalls
    /\ grid = NewGrid(FALSE) /\ grid_op = NoGridOp

Next ==
    \/ Call
    \/ TransportRule
    \/ TransportCopy
    \/ CollisionRule
    \/ Check
    \/ Inc

Spec == Init /\ [][Next]_vars

----------------------------------------------------------------------------
(* Grid: initialize, writes to its attributes, check_integrity.            *)
\* fresh: the operation found the grid as __init__ left it;
\* current: n was derived by initialize and neither boundaries nor d has
\* been written since; count: operations so far
GridOp(op, outcome, a, fresh, current) ==
    [op |-> op, outcome |-> outcome, args |-> a, fresh |-> fresh,
     current |-> current, count |-> grid_op.count + 1]

IsNewGrid(g) == g \in {NewGrid(TRUE), NewGrid(FALSE)}

GridInitialize(a) ==
    /\ pc = "grid" /\ grid_op.count < MaxGridOps
    /\ \E r \in Initialize(grid, a) :
           /\ grid' = r.grid
           /\ grid_op' = GridOp("initialize", r.outcome, a, IsNewGrid(grid),
                                IF r.outcome = "ok" THEN TRUE
                                ELSE IF r.grid = grid THEN grid_op.current
                                ELSE FALSE)
    /\ UNCHANGED <<geomVars, dataVars, inputVars, ctlVars>>

\* grid.d = d
GridSetD(d) ==
    /\ pc = "grid" /\ grid_op.count < MaxGridOps
    /\ grid' = [grid EXCEPT !.d = d, !.d_is_literal = FALSE]
    /\ grid_op' = GridOp("set_d", "ok", ExampleArgs({}), FALSE,
                         grid_op.current /\ d = grid.d)
    /\ UNCHANGED <<geomVars, dataVars, inputVars, ctlVars>>

\* grid.boundaries[i - 1, :] = row
GridSetBoundaries(i, row) ==
    /\ pc = "grid" /\ grid_op.count < MaxGridOps
    /\ grid' = [grid EXCEPT !.boundaries[i] = row]
    /\ grid_op' = GridOp("set_boundaries", "ok", ExampleArgs({}), FALSE,
                         grid_op.current /\ row = grid.boundaries[i])
    /\ UNCHANGED <<geomVars, dataVars, inputVars, ctlVars>>

\* grid.check_integrity()
GridCheck ==
    /\ pc = "grid" /\ grid_op.count < MaxGridOps
    /\ \E o \in GridCheckIntegrity(grid) :
           grid_op' = GridOp("check_integrity", o, ExampleArgs({}), FALSE,
                             grid_op.current)
    /\ grid' = grid
    /\ UNCHANGED <<geomVars, dataVars, inputVars, ctlVars>>

InitGrid ==
    /\ \E shared_constants \in BOOLEAN : grid = NewGrid(shared_constants)
    /\ grid_op = NoGridOp
    /\ shape = <<>> /\ rules = <<>> /\ geom_op = NoOp
    /\ state = <<>> /\ result = <<>> /\ t = 0
    /\ vG = <<1, 0, -1, 0>> /\ velocity_offset = 0 /\ dt = 1 /\ dp = 2
    /\ col = ColInput /\ col_mat = ColMatInput(Frac(1, 4))
    /\ p_dim = 1 /\ strict_index = FALSE
    /\ pc = "grid" /\ ri = 1 /\ log = <<>>
    /\ pre = [state |-> <<>>, result |-> <<>>, t |-> 0]
    /\ calls = NoCalls

NextGrid ==
    \/ \E a \in GridArgInputs : GridInitialize(a)
    \/ \E d \in GridWrittenStepInputs : GridSetD(d)
    \/ \E i \in 1 .. 2, row \in GridRowInputs : GridSetBoundaries(i, row)
    \/ GridCheck

SpecGrid == InitGrid /\ [][NextGrid]_vars

----------------------------------------------------------------------------
(* The operators of compute.py applied to data directly.  Here log holds   *)
(* the last operator call, pre the data before it, and calls counts the    *)
(* calls made.                                                             *)
ComputePointInputs == {<<1>>, <<0, 1>>, <<2>>, <<0, 1, 2>>}

ScratchArray ==
    [p \in 0 .. 2 |-> <<Row(1, 1, 1, 0), Row(2, 0, 2, 0), Row(2, 1, 2, 0)>>[p + 1]]

ComputeArrayInputs ==
    {[p \in 0 .. 2 |-> <<Row(2, 0, 2, 0), Row(0, 1, 0, 3), Row(1, 1, 1, 0)>>[p + 1]],
     ScratchArray}

\* the operator returned or raised: the data it leaves, and the record
Applied(op, pts, o) ==
    /\ state' = o.state
    /\ result' = o.result
    /\ pre' = [state |-> state, result |-> result, t |-> t]
    /\ log' = <<[op |-> op, affected_points |-> pts, exc |-> o.exc]>>
    /\ calls' = [begun |-> calls.begun + 1,
                 completed |-> IF o.exc = "none" THEN calls.completed + 1
                               ELSE calls.completed,
                 last |-> IF o.exc = "none" THEN "completed" ELSE o.exc]
    /\ UNCHANGED <<gridVars, geomVars, inputVars, t, pc, ri>>

ApplyTransportFdmInner(pts) ==
    /\ pc = "compute" /\ calls.begun < MaxSteps
    /\ Applied("transport_fdm_inner", pts, TransportFdmInner(state, result, pts))

ApplyFdmFirstOrder(pts) ==
    /\ pc = "compute" /\ calls.begun < MaxSteps
    /\ Applied("fdm_first_order", pts, FdmFirstOrder(state, result, pts))

ApplyEulerScheme(pts) ==
    /\ pc = "compute" /\ calls.begun < MaxSteps
    /\ Applied("euler_scheme", pts,
               Outcome("none", EulerScheme(state, pts), result))

InitCompute ==
    /\ state \in ComputeArrayInputs
    /\ result = ScratchArray
    /\ t = 0
    /\ vG \in VelocityGridInputs
    /\ velocity_offset \in OffsetInputs
    /\ \E s \in StepInputs : dt = s[1] /\ dp = s[2]
    /\ col = ColInput
    /\ \E w \in ColWeightInputs : col_mat = ColMatInput(w)
    /\ \E b \in BuildInputs : p_dim = b[1] /\ strict_index = b[2]
    /\ shape = SimShape /\ rules = <<>> /\ geom_op = NoOp
    /\ pc = "compute" /\ ri = 1 /\ log = <<>>
    /\ pre = [state |-> state, result |-> result, t |-> t]
    /\ calls = NoCalls
    /\ grid = NewGrid(FALSE) /\ grid_op = NoGridOp

NextCompute ==
    \E pts \in ComputePointInputs :
        \/ ApplyTransportFdmInner(pts)
        \/ ApplyFdmFirstOrder(pts)
        \/ ApplyEulerScheme(pts)

SpecCompute == InitCompute /\ [][NextCompute]_vars

\* the last operator call, where one was made
LastCall == log[1]

----------------------------------------------------------------------------
(* Properties of operator_splitting.                                       *)
IsPrefix(a, b) == Len(a) <= Len(b) /\ a = SubSeq(b, 1, Len(a))

ClaimedOrder == <<"transport", "collision", "check", "inc">>

\* C1: one call of operator_splitting runs the transport stage once, then the
\* collision stage once, then the non-negativity check, then increments t:
\* the stages a call has finished are always an initial part of that order
\* without repetition, and a call that returned normally has finished all four.
C1_StagesInFixedOrder ==
    /\ IsPrefix(log, ClaimedOrder)
    /\ (pc = 0 /\ calls.last = "completed") => log = ClaimedOrder
    /\ "check" \in Range(log) => AllNonNegative(state)

C1_Witness == pc = 0 /\ calls.last = "completed" /\ calls.completed = 2

\* C2: data.t equals its initial value (0) plus the number of calls that
\* completed normally, and every change of t is an increment by one made by
\* the last statement of operator_splitting.
C2_TimeCountsCompletedCalls ==
    /\ [](t = calls.completed)
    /\ [][t' # t => (Stage = "inc" /\ t' = t + 1
                     /\ calls'.completed = calls.completed + 1)]_vars

C2_Witness ==
    /\ pc = 0 /\ t = 1 /\ calls.begun = 2
    /\ calls.completed = 1 /\ calls.last = "AssertionError"

----------------------------------------------------------------------------
(* Non-negativity.                                                         *)
\* |vG[v][0] + velocity_offset[0]| * dt / dp <= 1 for every velocity
CFL == \A v \in 1 .. NV : Abs(PV(v)) * dt <= dp

\* the transport stage of the running call is under way or has just returned
InOrAfterTransport == Stage = "transport" \/ (Stage = "collision" /\ ri = 1)

----------------------------------------------------------------------------
(* No rollback.                                                            *)
\* the state Geometry.transport and then Geometry.collision compute from the
\* data the running call began with
Collided ==
    GeometryCollision(GeometryTransport(pre.state, pre.result, rules).state, rules)

\* C4 as stated: a call either completes, with state >= 0 and t advanced by
\* one, or fails the non-negativity assertion with t not advanced and the
\* transported-and-collided values kept in data.state.
C4_CompletesOrFailsAssertion ==
    (pc = 0 /\ calls.last # "none") =>
        \/ /\ calls.last = "completed"
           /\ AllNonNegative(state) /\ t = pre.t + 1
        \/ /\ calls.last = "AssertionError"
           /\ t = pre.t /\ state = Collided

\* C4, amended: a call either completes (state >= 0, t advanced by one), or
\* fails the assertion (t not advanced, data.state keeps the transported and
\* collided values, some entry negative), or raises in the transport stage
\* (NotImplementedError, IndexError), in which case t is not advanced and
\* data.state is as before the call.
C4_CompletesOrFailsWithoutRollback ==
    (pc = 0 /\ calls.last # "none") =>
        \/ /\ calls.last = "completed"
           /\ AllNonNegative(state) /\ t = pre.t + 1 /\ state = Collided
        \/ /\ calls.last = "AssertionError"
           /\ t = pre.t /\ state = Collided /\ ~AllNonNegative(state)
        \/ /\ calls.last \in {"NotImplementedError", "IndexError"}
           /\ t = pre.t /\ state = pre.state

C4_Witness ==
    /\ pc = 0 /\ calls.last = "AssertionError"
    /\ AllNonNegative(pre.state) /\ state # pre.state /\ t = pre.t

----------------------------------------------------------------------------
(* Transport writes to the scratch buffer only.                            *)
\* the first-order upwind value of cell (p, v), from the state st
Upwind(st, p, v) ==
    LET f == Frac(Abs(PV(v)) * dt, dp)
        n == NRows(st)
        nb == IF PV(v) < 0 THEN st[RowIndex(n, p + 1)][v]
              ELSE IF PV(v) > 0 THEN st[RowIndex(n, p - 1)][v]
              ELSE RInt(0)
    IN  RAdd(RMul(RSub(RInt(1), f), st[p][v]), RMul(f, nb))

\* fdm_first_order on the points pts leaves st alone and writes upwind values
FdmWritesResultOnly(st, res, pts) ==
    LET o == FdmFirstOrder(st, res, pts)
    IN  /\ o.state = st
        /\ o.exc = "none" =>
               \A p \in DOMAIN st :
                   IF p \in Range(pts)
                   THEN \A v \in 1 .. NV : o.result[p][v] = Upwind(st, p, v)
                   ELSE o.result[p] = res[p]

\* C5: while the rules' transport runs inside Geometry.transport no entry of
\* data.state is written (it still holds the values the call began with);
\* transport_fdm_inner and fdm_first_order write only to data.result, every
\* written result[p, v] being computed from those values; data.state changes
\* only in the copy state := result made after the last rule's transport.
C5_TransportWritesResultOnly ==
    [][Stage = "transport" =>
          IF ri <= Len(rules)
          THEN /\ state' = state
               /\ state = pre.state
               /\ FdmWritesResultOnly(state, result, rules[ri].affected_points)
               /\ (rules[ri].kind = "Inner" /\ pc' = pc) =>
                      \A p \in DOMAIN state :
                          IF p \in Range(rules[ri].affected_points)
                          THEN \A v \in 1 .. NV :
                                   result'[p][v] = Upwind(pre.state, p, v)
                          ELSE result'[p] = result[p]
          ELSE state' = result /\ result' = result]_vars

C5_Witness ==
    /\ Stage = "transport" /\ ri > 1 /\ ri <= Len(rules)
    /\ rules[ri - 1].kind = "Inner"
    /\ result # pre.result /\ state = pre.state /\ state # result
    /\ FdmFirstOrder(state, result, rules[ri - 1].affected_points).exc = "none"

----------------------------------------------------------------------------
(* Rule dispatch is independent of the order of the rules.                 *)
Perms(n) == {f \in [1 .. n -> 1 .. n] : \A i, j \in 1 .. n : f[i] = f[j] => i = j}

Permuted(rs, f) == [i \in 1 .. Len(rs) |-> rs[f[i]]]

----------------------------------------------------------------------------
(* Mass conservation of the collision operator.                            *)
RowSum(u) == RSum(u)

ColumnsSumToZero ==
    \A k \in DOMAIN col : RSum([v \in 1 .. NV |-> col_mat[v][k]]) = RInt(0)

\* C7: with a collision matrix whose columns each sum to zero, every
\* collision step (euler_scheme on the affected points of the rule at hand)
\* leaves the sum over the velocities of data.state[p, :] unchanged for
\* every point p.
C7_CollisionConservesMass ==
    [][(ColumnsSumToZero /\ Stage = "collision") =>
           \A p \in DOMAIN state : RowSum(state'[p]) = RowSum(state[p])]_vars

\* the collision stage of the second call is over and has changed two rows
\* that differ from each other (data.result still holds the transported
\* values)
C7_Witness ==
    /\ ColumnsSumToZero
    /\ calls.begun = 2
    /\ Stage = "check"
    /\ state[0] # result[0]
    /\ state[1] # result[1]
    /\ state[1] # state[0]

----------------------------------------------------------------------------
(* Zero effective velocity.                                                *)
AllVelocitiesZero == \A v \in 1 .. NV : PV(v) = 0

----------------------------------------------------------------------------
(* Geometry: partition of the grid and add_rule.                           *)
Occurrences(s, x) == Cardinality({j \in DOMAIN s : s[j] = x})

\* C9: whenever is_set_up evaluates to True, the concatenation of all rules'
\* affected_points holds each index of range(0, size) exactly once and no
\* index outside that range.
C9_SetUpMeansPartition ==
    IsSetUp(shape, rules) = "True" =>
        LET points == AllPoints(rules)
        IN  /\ \A x \in 0 .. Size(shape) - 1 : Occurrences(points, x) = 1
            /\ \A j \in DOMAIN points : points[j] \in 0 .. Size(shape) - 1

\* a geometry completed by two successful add_rule calls
C9_Witness ==
    /\ IsSetUp(shape, rules) = "True"
    /\ geom_op.op = "add_rule" /\ geom_op.outcome = "ok"
    /\ Len(rules) = 3
    /\ Size(shape) = 4

Overlaps(new_rule, rs) ==
    Range(new_rule.affected_points) \cap Range(AllPoints(rs)) # {}

\* C10: add_rule with a rule whose affected_points intersect the points of a
\* rule the geometry already holds raises, and rules and shape are exactly
\* as before the call.
C10_OverlapRejectedUnchanged ==
    (geom_op.op = "add_rule" /\ Overlaps(geom_op.new_rule, geom_op.prev_rules))
        => /\ geom_op.outcome = "raise"
           /\ rules = geom_op.prev_rules
           /\ shape = geom_op.prev_shape

\* the overlapping rule is offered to a geometry with a shape, after an
\* earlier add_rule has succeeded, and some of its points are still free
C10_Witness ==
    /\ geom_op.op = "add_rule"
    /\ Overlaps(geom_op.new_rule, geom_op.prev_rules)
    /\ shape # <<>>
    /\ Len(geom_op.prev_rules) = 2
    /\ Range(geom_op.new_rule.affected_points)
           \cap UnaffectedPoints(shape, geom_op.prev_rules) # {}

----------------------------------------------------------------------------
(* Geometry: exclusive ownership of grid points.                           *)
PairwiseDisjoint(rs) ==
    \A i, j \in DOMAIN rs :
        i # j => Range(rs[i].affected_points) \cap Range(rs[j].affected_points) = {}

AllInGrid(sh, rs) ==
    \A j \in DOMAIN AllPoints(rs) : AllPoints(rs)[j] \in 0 .. Size(sh) - 1

\* C11: after the constructor and any sequence of add_rule calls, successful
\* or failing, the affected_points of the rules the geometry holds are
\* pairwise disjoint and all lie in [0, size).
C11_RulesDisjointInGrid ==
    /\ PairwiseDisjoint(rules)
    /\ shape # <<>> => AllInGrid(shape, rules)

----------------------------------------------------------------------------
(* Geometry.initial_state.                                                 *)
Owners(rs, p) == {i \in DOMAIN rs : p \in Range(rs[i].affected_points)}

\* C12: initial_state returns an array only when the geometry is set up: it
\* returns None while a point of the grid is unclaimed (or no shape is set);
\* the array has one row per point of range(0, size), and row p is the
\* initial_state of the one rule whose affected_points contain p.
C12_InitialStateBroadcast ==
    LET r == InitialStateResult(shape, rules)
    IN  /\ (shape # <<>> /\ ~AffectedPointsRaises(rules)
               /\ UnaffectedPoints(shape, rules) # {}) => r.out = "None"
        /\ shape = <<>> => r.out = "None"
        /\ r.out = "array" =>
               /\ shape # <<>>
               /\ UnaffectedPoints(shape, rules) = {}
               /\ DOMAIN r.state = 0 .. Size(shape) - 1
               /\ \A p \in 0 .. Size(shape) - 1 :
                      /\ Cardinality(Owners(rules, p)) = 1
                      /\ \A i \in Owners(rules, p) :
                             r.state[p] = rules[i].initial_state

\* a geometry of four points completed by add_rule, held by rules with
\* different initial states
C12_Witness ==
    /\ InitialStateResult(shape, rules).out = "array"
    /\ geom_op.op = "add_rule" /\ geom_op.outcome = "ok"
    /\ Size(shape) = 4
    /\ \E i, j \in DOMAIN rules : rules[i].initial_state # rules[j].initial_state

----------------------------------------------------------------------------
(* Grid: the number of points.                                             *)
\* the boundaries Grid.initialize was given for axis i (one row given for
\* several axes is the row of each of them)
GivenRow(a, i) == IF Len(a.boundaries) = 1 THEN a.boundaries[1] ELSE a.boundaries[i]

\* ceil((max - min) / step) + 1 for every axis in use, multiplied
ClaimedCount(a) ==
    Prod([i \in 1 .. a.dim |->
             RCeil(RDiv(RSub(GivenRow(a, i)[2], GivenRow(a, i)[1]), a.d)) + 1])

ValidGridArgs(a) == RPos(a.d) /\ a.dim \in {1, 2, 3}

----------------------------------------------------------------------------
(* Grid.initialize: which parameters are given.                            *)
\* a call the derivation of n supports: the literal 'rectangular', a
\* positive step, dim in 1..3, one row of boundaries per axis (or one row
\* for all), every row of positive extent
SupportedCall(a) ==
    /\ a.shape = "rectangular" /\ a.shape_is_literal
    /\ ValidGridArgs(a)
    /\ Len(a.boundaries) \in {1, a.dim}
    /\ \A i \in DOMAIN a.boundaries :
           RPos(RSub(a.boundaries[i][2], a.boundaries[i][1]))

\* C14: Grid.initialize raises whenever the number of parameters given (not
\* None) among boundaries, d, n is not exactly two; a supported call that
\* gives boundaries and d and omits n succeeds and stores the n derived
\* from them.
C14_ExactlyTwoParameters ==
    grid_op.op = "initialize" =>
        /\ Cardinality(grid_op.args.given) # 2 => grid_op.outcome # "ok"
        /\ (grid_op.args.given = {"boundaries", "d"}
               /\ SupportedCall(grid_op.args)) =>
               /\ grid_op.outcome = "ok"
               /\ grid.d = grid_op.args.d
               /\ ComputeN(grid) = {[exc |-> "none", n |-> grid.n]}
               /\ grid_op.fresh => grid.n = ClaimedCount(grid_op.args)

\* a call giving all three parameters has failed on a grid whose n = 3 an
\* earlier call had derived from boundaries and d
C14_Witness ==
    /\ grid_op.op = "initialize"
    /\ grid_op.args.given = {"boundaries", "d", "n"}
    /\ grid_op.outcome = "AssertionError"
    /\ grid_op.current /\ grid.n = 3 /\ grid_op.count = 2

----------------------------------------------------------------------------
(* Grid.check_integrity.                                                   *)
\* the count that the grid's present boundaries and d give
RecomputedCount(g) ==
    Prod([i \in 1 .. 3 |->
             RCeil(RDiv(RSub(g.boundaries[i][2], g.boundaries[i][1]), g.d)) + 1])

\* C15: check_integrity passes only if dim is in {1, 2, 3}, d > 0, n >= 2
\* and the stored n equals the count recomputed from the present boundaries
\* and d; a grid whose boundaries or d were written so that the recomputed
\* count differs from the stored n fails check_integrity.
C15_IntegrityMeansConsistentCount ==
    /\ (grid_op.op = "check_integrity" /\ grid_op.outcome = "ok") =>
           /\ grid.dim \in {1, 2, 3}
           /\ RPos(grid.d)
           /\ grid.n >= 2
           /\ grid.n = RecomputedCount(grid)
    /\ (RPos(grid.d) /\ grid.n # RecomputedCount(grid)) =>
           GridCheckIntegrity(grid) = {"AssertionError"}

\* initialize succeeded, then boundaries or d was written, and
\* check_integrity failed on the count alone
C15_Witness ==
    /\ grid_op.op = "check_integrity" /\ grid_op.outcome = "AssertionError"
    /\ grid_op.count = 3 /\ ~grid_op.current
    /\ grid.dim \in {1, 2, 3} /\ RPos(grid.d) /\ grid.n >= 2
    /\ ShapeIsRectangular(grid)
    /\ grid.n # RecomputedCount(grid)
    /\ RecomputedCount(grid) >= 2

----------------------------------------------------------------------------
(* Transport in one space dimension only.                                  *)
\* C16: when data.p_dim is not 1, transport_fdm_inner and fdm_first_order
\* raise NotImplementedError and leave data.state and data.result as they
\* were before the call.
C16_OtherDimensionsRaiseUntouched ==
    (log # <<>> /\ p_dim # 1
        /\ LastCall.op \in {"transport_fdm_inner", "fdm_first_order"}) =>
        /\ LastCall.exc = "NotImplementedError"
        /\ state = pre.state
        /\ result = pre.result

\* transport_fdm_inner has raised on data that an earlier euler_scheme call
\* had changed
C16_Witness ==
    /\ p_dim = 2 /\ calls.begun = 2 /\ calls.completed = 1
    /\ LastCall.op = "transport_fdm_inner"
    /\ LastCall.exc = "NotImplementedError"
    /\ state # result
    /\ \E s \in ComputeArrayInputs : state # s


----------------------------------------------------------------------------
(* C17.  A point owned by a rule whose transport and collision are         *)
(* no_transport and no_collisions holds that rule's initial state after    *)
(* every completed operator_splitting step, however many steps were made,  *)
(* in a simulation that starts from state = Geometry.initial_state.        *)
ConstantRules == {i \in DOMAIN rules : rules[i].kind = "Constant"}

StepCompleted == pc = 0 /\ calls.last = "completed"

----------------------------------------------------------------------------
(* C18.  A call of transport_fdm_inner that returns has written, for every *)
(* affected point p and velocity index v, with pv0 = vG[v][0] +            *)
(* velocity_offset[0] and f = |pv0| * dt / dp, the first-order upwind      *)
(* value: (1 - f) * state[p, v] + f * state[p + 1, v] if pv0 < 0,          *)
(* (1 - f) * state[p, v] + f * state[p - 1, v] if pv0 > 0, and state[p, v] *)
(* if pv0 = 0.  The rows p + 1 and p - 1 are read as numpy reads them.     *)
UpwindClaimed(st, p, v) ==
    LET pv0 == PV(v)
        f == Frac(Abs(pv0) * dt, dp)
        n == NRows(st)
    IN  IF pv0 < 0
        THEN RAdd(RMul(RSub(RInt(1), f), st[p][v]),
                  RMul(f, st[RowIndex(n, p + 1)][v]))
        ELSE IF pv0 > 0
        THEN RAdd(RMul(RSub(RInt(1), f), st[p][v]),
                  RMul(f, st[RowIndex(n, p - 1)][v]))
        ELSE st[p][v]

ReturnedFrom(op) == log # <<>> /\ LastCall.op = op /\ LastCall.exc = "none"

C18_TransportIsFirstOrderUpwind ==
    ReturnedFrom("transport_fdm_inner") =>
        \A p \in Range(LastCall.affected_points) : \A v \in 1 .. NV :
            result[p][v] = UpwindClaimed(pre.state, p, v)

\* a returned call on two points with velocities of all three signs, which
\* changed the result buffer
C18_Witness ==
    /\ ReturnedFrom("transport_fdm_inner")
    /\ LastCall.affected_points = <<0, 1>>
    /\ NegVels # {} /\ PosVels # {}
    /\ \E v \in 1 .. NV : PV(v) = 0
    /\ result[0] # pre.result[0] /\ result[1] # pre.result[1]
    /\ result[0] # pre.state[0]


----------------------------------------------------------------------------
(* C19.  euler_scheme adds to the row of each affected point p the product *)
(* of col_mat with the vector of factors, factor[k] = state[p, col[k, 0]]  *)
(* * state[p, col[k, 2]] - state[p, col[k, 1]] * state[p, col[k, 3]],      *)
(* every factor taken from the values the row held before any part of its  *)
(* increment was applied.                                                  *)
FactorClaimed(u, k) ==
    RSub(RMul(u[col[k][1]], u[col[k][3]]), RMul(u[col[k][2]], u[col[k][4]]))

EulerClaimed(u, v) ==
    RAdd(u[v], RSum([k \in DOMAIN col |-> RMul(col_mat[v][k], FactorClaimed(u, k))]))

C19_EulerIsOneExplicitStep ==
    ReturnedFrom("euler_scheme") =>
        \A p \in Range(LastCall.affected_points) : \A v \in 1 .. NV :
            state[p][v] = EulerClaimed(pre.state[p], v)

\* a returned call on two points whose rows it changed, where the factor of
\* the new row differs from the factor of the old one
C19_Witness ==
    /\ ReturnedFrom("euler_scheme")
    /\ LastCall.affected_points = <<0, 1>>
    /\ state[0] # pre.state[0] /\ state[1] # pre.state[1]
    /\ FactorClaimed(state[0], 1) # FactorClaimed(pre.state[0], 1)
    /\ FactorClaimed(pre.state[0], 1) # FactorClaimed(pre.state[1], 1)


----------------------------------------------------------------------------
(* C20.  A call of euler_scheme writes only the rows of data.state named   *)
(* in affected_points: every other row of data.state, the whole of         *)
(* data.result, and data.col, data.col_mat and data.vG are as before the   *)
(* call, and the new row of an affected point is the same whatever the     *)
(* other rows of data.state hold.                                          *)
\* the array st with every row but p taken from other
OtherRowsFrom(st, p, other) ==
    [q \in DOMAIN st |-> IF q = p THEN st[p] ELSE other[q]]

EulerSchemeCalled ==
    calls'.begun = calls.begun + 1 /\ log'[1].op = "euler_scheme"

C20_EulerTouchesOwnRowsOnly ==
    [][EulerSchemeCalled =>
        LET pts == log'[1].affected_points
        IN  /\ \A q \in DOMAIN state \ Range(pts) : state'[q] = state[q]
            /\ result' = result
            /\ col' = col /\ col_mat' = col_mat /\ vG' = vG
            /\ \A p \in Range(pts) : \A other \in ComputeArrayInputs :
                   EulerScheme(OtherRowsFrom(state, p, other), pts)[p] = state'[p]
      ]_vars

\* a returned call on the middle point alone changed its row, next to rows
\* that a collision step would have changed, with a result buffer that
\* differs from the state
C20_Witness ==
    /\ ReturnedFrom("euler_scheme")
    /\ LastCall.affected_points = <<1>>
    /\ state[1] # pre.state[1]
    /\ FactorClaimed(state[0], 1) # RInt(0) /\ FactorClaimed(state[2], 1) # RInt(0)
    /\ state[0] # state[2]
    /\ result # state /\ result # pre.state


----------------------------------------------------------------------------
(* C21.  The value transport_fdm_inner writes for an affected point p      *)
(* comes from the rows p - 1, p and p + 1 of data.state that lie inside    *)
(* the grid and from no other row: with those rows kept, the written row   *)
(* is the same whatever the remaining rows hold, also for p = 0 with a     *)
(* velocity of positive effective x-component and for the last point with  *)
(* one of negative effective x-component.                                  *)
NeighbourRows(st, p) == {p - 1, p, p + 1} \cap DOMAIN st

\* the array st with every row that is no neighbour of p taken from other
OutsideRowsFrom(st, p, other) ==
    [q \in DOMAIN st |-> IF q \in NeighbourRows(st, p) THEN st[q] ELSE other[q]]

C21_InflowFromNeighbourRowsOnly ==
    ReturnedFrom("transport_fdm_inner") =>
        \A p \in Range(LastCall.affected_points) : \A other \in ComputeArrayInputs :
            LET o == TransportFdmInner(OutsideRowsFrom(pre.state, p, other),
                                       pre.result, LastCall.affected_points)
            IN  o.exc = "none" /\ o.result[p] = result[p]


----------------------------------------------------------------------------
(* C22.  On the same data with p_dim = 1 and the same affected points, all *)
(* of them with both neighbours inside the grid, fdm_first_order and       *)
(* transport_fdm_inner end alike, both returning or both raising, and      *)
(* write the same value to data.result[p, v] for every affected point p    *)
(* and every velocity index v, velocities of effective x-component zero    *)
(* included.                                                               *)
Interior(st, pts) ==
    \A j \in DOMAIN pts : pts[j] - 1 \in DOMAIN st /\ pts[j] + 1 \in DOMAIN st

\* the other first-order transport operator, applied to the data before the
\* last call
OtherTransport ==
    IF LastCall.op = "fdm_first_order"
    THEN TransportFdmInner(pre.state, pre.result, LastCall.affected_points)
    ELSE FdmFirstOrder(pre.state, pre.result, LastCall.affected_points)

C22_TransportOperatorsAgree ==
    (/\ log # <<>>
     /\ LastCall.op \in {"fdm_first_order", "transport_fdm_inner"}
     /\ p_dim = 1
     /\ Interior(pre.state, LastCall.affected_points)) =>
        /\ (OtherTransport.exc = "none") <=> (LastCall.exc = "none")
        /\ \A p \in Range(LastCall.affected_points) : \A v \in 1 .. NV :
               OtherTransport.result[p][v] = result[p][v]

\* fdm_first_order returned on the middle point, with velocities of all
\* three signs and neighbours that differ, and changed the result buffer
C22_Witness ==
    /\ ReturnedFrom("fdm_first_order")
    /\ p_dim = 1
    /\ LastCall.affected_points = <<1>>
    /\ NegVels # {} /\ PosVels # {}
    /\ \E v \in 1 .. NV : PV(v) = 0
    /\ pre.state[0] # pre.state[2]
    /\ result[1] # pre.result[1] /\ result[1] # pre.state[1]


----------------------------------------------------------------------------
(* C23.  Every add_rule call that fails leaves Geometry.rules as it was    *)
(* before the call: also when the new rule passes the overlap check and    *)
(* the integrity check after it fails, the rule is not left in rules.      *)
AddRuleFailed == geom_op.op = "add_rule" /\ geom_op.outcome = "raise"

C23_FailedAddRuleLeavesRules ==
    AddRuleFailed => rules = geom_op.prev_rules


----------------------------------------------------------------------------
(* C24.  A call of Grid.initialize that fails leaves the fields dim,       *)
(* boundaries, d, n and shape of the Grid as they were before the call,    *)
(* when the wrong combination of boundaries, d and n is given and also     *)
(* when boundaries and d are given with a shape other than 'rectangular'.  *)
GridFields(g) == <<g.dim, g.boundaries, g.d, g.n, g.shape>>

InitializeFailed ==
    /\ grid_op'.count = grid_op.count + 1
    /\ grid_op'.op = "initialize"
    /\ grid_op'.outcome # "ok"

C24_FailedInitializeLeavesFields ==
    [][InitializeFailed => GridFields(grid') = GridFields(grid)]_vars

====
